---- MODULE Spec2Model ----
(***************************************************************************)
(* Presence / collaboration channel of Spark.                              *)
(*                                                                         *)
(*   relay  : src/src/lib/socket.ts         (setupSocket, handleUserLeave) *)
(*   client : src/src/lib/socket-client.ts  (class SocketClient)           *)
(*                                                                         *)
(* The relay keeps one process-wide Map of rooms; every connection has two *)
(* closure variables (currentRoom, userPresence).  Wall-clock fields       *)
(* (lastSeen, startedAt, timestamp) and the display fields that travel     *)
(* with the user id (username, avatar) carry no control flow and are not   *)
(* represented.  A JavaScript Map is represented by a function; its        *)
(* iteration order is not represented.                                     *)
(***************************************************************************)
EXTENDS Integers, Sequences, FiniteSets, TLC

VARIABLES
    \* ---- relay (socket.ts) ----
    collaborationRooms, \* Map<roomKey, CollaborationRoom>
    currentRoom,        \* per connection: closure variable currentRoom
    userPresence,       \* per connection: closure variable userPresence
    connState,          \* per connection: "new" | "open" | "closed"
    ioRooms,            \* per connection: the socket.io rooms it is in
    emitted,            \* what the last handler emitted, in order
    lastEvent,          \* the client event the relay processed last
    member,             \* per connection: the room it announced itself to
    processed,          \* number of client events the relay has processed
    joinsProcessed,     \* per room: user_join events processed
    leavesProcessed,    \* per room: user_leave and disconnect events processed
    sessionsAdded,      \* per room: sessions inserted into room.users
    sessionsRemoved,    \* per room: sessions deleted from room.users
    delivered,          \* per connection: what the relay has sent it, in the
                        \* order sent: the originating connection and the
                        \* number of the client event it was derived from
    \* ---- client (socket-client.ts, one SocketClient in a browser) ----
    socket,             \* this.socket: NULL or the state of the socket it names
    replaced,           \* sockets that connect() replaced and that live on
    connectionStatus,   \* this.connectionStatus
    reconnectAttempts,  \* this.reconnectAttempts
    currentUser,        \* this.currentUser
    idleTimer,          \* this.idleTimer
    awayTimer,          \* this.awayTimer
    retryTimers,        \* pending setTimeout callbacks of attemptReconnect
    lastDelay,          \* the delay attemptReconnect computed last
    quiet,              \* idle-threshold units since the last tracked input
    sent,               \* what the last client step emitted to the relay
    surfaced,           \* consumer listeners the last client step called
    clientOp,           \* the client step taken last, and where it came from
    eventListeners,     \* this.eventListeners: the relayed events that have a
                        \* consumer listener (the listeners for the connection
                        \* events are taken as registered)
    boundKeys,          \* the keys of this.eventListeners for which this.socket
                        \* was given a handler when it was set up
    budgetSpent         \* an unexpected drop found the attempt counter at the
                        \* cap, and the consumer has made no call since

relayVars == <<collaborationRooms, currentRoom, userPresence, connState,
               ioRooms, emitted, lastEvent, member, processed>>
countVars == <<joinsProcessed, leavesProcessed, sessionsAdded, sessionsRemoved,
               delivered>>
clientVars == <<socket, replaced, connectionStatus, reconnectAttempts,
                currentUser, idleTimer, awayTimer, retryTimers, lastDelay,
                quiet, sent, surfaced, clientOp, eventListeners, boundKeys,
                budgetSpent>>
vars == <<relayVars, countVars, clientVars>>

----------------------------------------------------------------------------
(* Universe of inputs *)

\* socket.io connection ids: strings of one fixed length over [A-Za-z0-9_-]
SocketIds == { <<"a", "x">>, <<"b", "x">>, <<"_", "x">> }
Users == {"alice", "bob"}
\* the user each connection announces: two tabs of alice, one of bob
UserOf(c) == IF c = <<"_", "x">> THEN "bob" ELSE "alice"
Workspaces == {"w1", "w2"}
SparkIds == { <<"s">>, <<"s", "_", "a">> }
Statuses == {"online", "idle", "away"}
CursorPoints == { [x |-> 1, y |-> 2] }

NULL == [null |-> TRUE]
\* the null value of the string-typed closure variable currentRoom
NoRoom == "null"

RoomKey(workspaceId) == "workspace_" \o workspaceId
RoomKeys == { RoomKey(w) : w \in Workspaces }

\* the claim keyed by the item alone
SessionKeyBySpark(sparkId, socketId) == sparkId

\* `${sparkId}_${socket.id}`
SessionKey(sparkId, socketId) == sparkId \o <<"_">> \o socketId

\* String.prototype.endsWith
EndsWith(key, suffix) ==
    /\ Len(key) >= Len(suffix)
    /\ SubSeq(key, Len(key) - Len(suffix) + 1, Len(key)) = suffix

----------------------------------------------------------------------------
(* Map helpers *)

MapSet(m, k, v) == [x \in (DOMAIN m) \cup {k} |-> IF x = k THEN v ELSE m[x]]
MapDelete(m, k) == [x \in (DOMAIN m) \ {k} |-> m[x]]
MapDeleteAll(m, ks) == [x \in (DOMAIN m) \ ks |-> m[x]]
EmptyMap == [x \in {} |-> NULL]

RECURSIVE SetToSeq(_)
SetToSeq(S) ==
    IF S = {} THEN <<>>
    ELSE LET e == CHOOSE e \in S : TRUE IN <<e>> \o SetToSeq(S \ {e})

\* socket.emit instead of socket.to(room).emit: the sender alone
ToSenderOnly(io, roomKey, socketId) == {socketId}

\* socket.to(room).emit: every socket in the socket.io room but the sender
ToRoomExcept(io, roomKey, socketId) ==
    { d \in SocketIds : roomKey \in io[d] } \ {socketId}
\* io.to(room).emit: every socket in the socket.io room
ToRoom(io, roomKey) == { d \in SocketIds : roomKey \in io[d] }

Emit(event, to, data) == [event |-> event, to |-> to, data |-> data]

----------------------------------------------------------------------------
(* Bound: the number of client events the relay processes in one run *)

MaxEvents == 4

\* a client event arrives on an open connection
Receive(c) ==
    /\ connState[c] = "open"
    /\ processed < MaxEvents
    /\ processed' = processed + 1

Total(f) == LET RECURSIVE Sum(_)
                Sum(S) == IF S = {} THEN 0
                          ELSE LET r == CHOOSE r \in S : TRUE
                               IN f[r] + Sum(S \ {r})
            IN Sum(DOMAIN f)

Bump(f, r) == [f EXCEPT ![r] = @ + 1]

----------------------------------------------------------------------------
(* handleUserLeave(roomKey, socketId), socket.ts 289-328 *)

\* the removal of the editing sessions left out
NoSparkSessions(room, socketId) == {}

\* the filter left out: every editing session of the room
AllSparkSessions(room, socketId) == DOMAIN room.activeSparks

\* Array.from(room.activeSparks.entries()).filter(([key]) => key.endsWith(`_${socketId}`))
UserSparkSessions(room, socketId) ==
    { key \in DOMAIN room.activeSparks : EndsWith(key, <<"_">> \o socketId) }

\* handleUserLeave without room.users.delete(socketId)
HandleUserLeaveKeepsUser(rooms, io, roomKey, socketId) ==
    IF roomKey \in DOMAIN rooms /\ socketId \in DOMAIN rooms[roomKey].users
    THEN [rooms |-> rooms,
          out |-> << Emit("user_left", ToRoom(io, roomKey),
                          [userId |-> rooms[roomKey].users[socketId].userId]) >>,
          removed |-> TRUE]
    ELSE [rooms |-> rooms, out |-> <<>>, removed |-> FALSE]

\* handleUserLeave broadcasting user_left before the editing sessions end
HandleUserLeaveLeftFirst(rooms, io, roomKey, socketId) ==
    IF roomKey \in DOMAIN rooms /\ socketId \in DOMAIN rooms[roomKey].users
    THEN LET room == rooms[roomKey]
             users1 == MapDelete(room.users, socketId)
             keys == UserSparkSessions(room, socketId)
             keySeq == SetToSeq(keys)
             room1 == [room EXCEPT !.users = users1,
                                   !.activeSparks = MapDeleteAll(room.activeSparks, keys)]
         IN [rooms |-> IF DOMAIN users1 = {}
                       THEN MapDelete(rooms, roomKey)
                       ELSE MapSet(rooms, roomKey, room1),
             out |-> << Emit("user_left", ToRoom(io, roomKey),
                             [userId |-> room.users[socketId].userId]) >>
                     \o [i \in 1..Len(keySeq) |->
                            Emit("spark_editing_ended", ToRoom(io, roomKey),
                                 [sparkId |-> room.activeSparks[keySeq[i]].sparkId,
                                  userId |-> room.activeSparks[keySeq[i]].userId])],
             removed |-> TRUE]
    ELSE [rooms |-> rooms, out |-> <<>>, removed |-> FALSE]

\* handleUserLeave removing every session of the user, not of the connection
HandleUserLeaveByUser(rooms, io, roomKey, socketId) ==
    IF roomKey \in DOMAIN rooms /\ socketId \in DOMAIN rooms[roomKey].users
    THEN LET room == rooms[roomKey]
             user == room.users[socketId]
             gone == { d \in DOMAIN room.users : room.users[d].userId = user.userId }
             users1 == MapDeleteAll(room.users, gone)
             room1 == [room EXCEPT !.users = users1]
         IN [rooms |-> IF DOMAIN users1 = {}
                       THEN MapDelete(rooms, roomKey)
                       ELSE MapSet(rooms, roomKey, room1),
             out |-> << Emit("user_left", ToRoom(io, roomKey),
                             [userId |-> user.userId]) >>,
             removed |-> TRUE]
    ELSE [rooms |-> rooms, out |-> <<>>, removed |-> FALSE]

\* handleUserLeave without the clean-up of empty rooms
HandleUserLeaveKeepsRoom(rooms, io, roomKey, socketId) ==
    IF roomKey \in DOMAIN rooms /\ socketId \in DOMAIN rooms[roomKey].users
    THEN LET room == rooms[roomKey]
             keys == UserSparkSessions(room, socketId)
             keySeq == SetToSeq(keys)
             room1 == [room EXCEPT !.users = MapDelete(room.users, socketId),
                                   !.activeSparks = MapDeleteAll(room.activeSparks, keys)]
         IN [rooms |-> MapSet(rooms, roomKey, room1),
             out |-> [i \in 1..Len(keySeq) |->
                         Emit("spark_editing_ended", ToRoom(io, roomKey),
                              [sparkId |-> room.activeSparks[keySeq[i]].sparkId,
                               userId |-> room.activeSparks[keySeq[i]].userId])]
                     \o << Emit("user_left", ToRoom(io, roomKey),
                                [userId |-> room.users[socketId].userId]) >>,
             removed |-> TRUE]
    ELSE [rooms |-> rooms, out |-> <<>>, removed |-> FALSE]

\* Result: the registry afterwards, the events emitted, and whether a
\* session was found and removed.
HandleUserLeave(rooms, io, roomKey, socketId) ==
    IF roomKey \in DOMAIN rooms /\ socketId \in DOMAIN rooms[roomKey].users
    THEN LET room == rooms[roomKey]
             user == room.users[socketId]
             users1 == MapDelete(room.users, socketId)
             keys == UserSparkSessions(room, socketId)
             keySeq == SetToSeq(keys)
             sparks1 == MapDeleteAll(room.activeSparks, keys)
             ended == [i \in 1..Len(keySeq) |->
                         Emit("spark_editing_ended", ToRoom(io, roomKey),
                              [sparkId |-> room.activeSparks[keySeq[i]].sparkId,
                               userId |-> room.activeSparks[keySeq[i]].userId])]
             left == Emit("user_left", ToRoom(io, roomKey),
                          [userId |-> user.userId])
             room1 == [room EXCEPT !.users = users1, !.activeSparks = sparks1]
         IN [rooms |-> IF DOMAIN users1 = {}
                       THEN MapDelete(rooms, roomKey)
                       ELSE MapSet(rooms, roomKey, room1),
             out |-> ended \o <<left>>,
             removed |-> TRUE]
    ELSE [rooms |-> rooms, out |-> <<>>, removed |-> FALSE]

----------------------------------------------------------------------------
(* io.on('connection'), socket.ts 33-36 and 280-285 *)

Connection(c) ==
    /\ connState[c] = "new"
    /\ connState' = [connState EXCEPT ![c] = "open"]
    /\ emitted' = << Emit("connected", {c}, [socketId |-> c]) >>
    /\ lastEvent' = [type |-> "connection", socketId |-> c, arg |-> NULL]
    /\ UNCHANGED <<collaborationRooms, currentRoom, userPresence, ioRooms, member,
                   processed>>
    /\ UNCHANGED <<countVars, clientVars>>

NoLeave(rooms) == [rooms |-> rooms, out |-> <<>>, removed |-> FALSE]

(* socket.on('user_join'), socket.ts 39-90: what the handler computes *)
JoinResult(c, userId, workspaceId) ==
    LET prev == currentRoom[c]
        \* socket.leave(currentRoom); handleUserLeave(currentRoom, socket.id)
        io1 == IF prev # NoRoom
               THEN [ioRooms EXCEPT ![c] = @ \ {prev}] ELSE ioRooms
        hl == IF prev # NoRoom
              THEN HandleUserLeave(collaborationRooms, io1, prev, c)
              ELSE NoLeave(collaborationRooms)
        roomKey == RoomKey(workspaceId)
        io2 == [io1 EXCEPT ![c] = @ \cup {roomKey}]
        rooms2 == IF roomKey \notin DOMAIN hl.rooms
                  THEN MapSet(hl.rooms, roomKey,
                              [workspaceId |-> workspaceId,
                               users |-> EmptyMap,
                               activeSparks |-> EmptyMap])
                  ELSE hl.rooms
        presence == [userId |-> userId, workspaceId |-> workspaceId,
                     status |-> "online", cursor |-> NULL]
        room3 == [rooms2[roomKey] EXCEPT !.users = MapSet(@, c, presence)]
    IN [rooms |-> MapSet(rooms2, roomKey, room3),
        io |-> io2,
        presence |-> presence,
        roomKey |-> roomKey,
        out |-> hl.out \o
                <<Emit("user_joined", ToRoomExcept(io2, roomKey, c),
                       [user |-> presence]),
                  Emit("room_state", {c},
                       [users |-> room3.users,
                        activeSparks |-> room3.activeSparks])>>,
        prevRemoved |-> hl.removed,
        fresh |-> c \notin DOMAIN rooms2[roomKey].users]

JoinStep(c, userId, workspaceId) ==
    /\ Receive(c)
    /\ LET r == JoinResult(c, userId, workspaceId)
       IN /\ collaborationRooms' = r.rooms
          /\ currentRoom' = [currentRoom EXCEPT ![c] = r.roomKey]
          /\ userPresence' = [userPresence EXCEPT ![c] = r.presence]
          /\ ioRooms' = r.io
          /\ emitted' = r.out
          /\ member' = [member EXCEPT ![c] = r.roomKey]
    /\ lastEvent' = [type |-> "user_join", socketId |-> c, arg |-> workspaceId]
    /\ UNCHANGED connState

UserJoin(c, userId, workspaceId) ==
    /\ JoinStep(c, userId, workspaceId)
    /\ UNCHANGED <<countVars, clientVars>>

\* user_leave without currentRoom = null
LeaveStepKeepsRoom(c, workspaceId) ==
    /\ Receive(c)
    /\ LET roomKey == RoomKey(workspaceId)
           hl == HandleUserLeave(collaborationRooms, ioRooms, roomKey, c)
       IN /\ collaborationRooms' = hl.rooms
          /\ emitted' = hl.out
          /\ ioRooms' = [ioRooms EXCEPT ![c] = @ \ {roomKey}]
          /\ member' = [member EXCEPT ![c] = IF @ = roomKey THEN NoRoom ELSE @]
    /\ lastEvent' = [type |-> "user_leave", socketId |-> c, arg |-> workspaceId]
    /\ UNCHANGED <<currentRoom, userPresence, connState>>

(* socket.on('user_leave'), socket.ts 93-98 *)
LeaveStep(c, workspaceId) ==
    /\ Receive(c)
    /\ LET roomKey == RoomKey(workspaceId)
           hl == HandleUserLeave(collaborationRooms, ioRooms, roomKey, c)
       IN /\ collaborationRooms' = hl.rooms
          /\ emitted' = hl.out
          /\ ioRooms' = [ioRooms EXCEPT ![c] = @ \ {roomKey}]
          /\ currentRoom' = [currentRoom EXCEPT ![c] = NoRoom]
          /\ member' = [member EXCEPT ![c] = IF @ = roomKey THEN NoRoom ELSE @]
    /\ lastEvent' = [type |-> "user_leave", socketId |-> c, arg |-> workspaceId]
    /\ UNCHANGED <<userPresence, connState>>

UserLeave(c, workspaceId) ==
    /\ LeaveStep(c, workspaceId)
    /\ UNCHANGED <<countVars, clientVars>>

\* the guard shared by the presence and cursor handlers:
\* currentRoom && userPresence && room && room.users.has(socket.id)
HasSession(c) ==
    /\ currentRoom[c] # NoRoom
    /\ userPresence[c] # NULL
    /\ currentRoom[c] \in DOMAIN collaborationRooms
    /\ c \in DOMAIN collaborationRooms[currentRoom[c]].users

\* the guard of the editing handlers: currentRoom && userPresence && room
HasRoom(c) ==
    /\ currentRoom[c] # NoRoom
    /\ userPresence[c] # NULL
    /\ currentRoom[c] \in DOMAIN collaborationRooms

SetUser(rooms, roomKey, c, presence) ==
    [rooms EXCEPT ![roomKey].users = MapSet(@, c, presence)]

(* socket.on('presence_update'), socket.ts 101-118 *)
PresenceUpdate(c, status) ==
    /\ Receive(c)
    /\ IF HasSession(c)
       THEN LET presence == [userPresence[c] EXCEPT !.status = status]
            IN /\ userPresence' = [userPresence EXCEPT ![c] = presence]
               /\ collaborationRooms' =
                     SetUser(collaborationRooms, currentRoom[c], c, presence)
               /\ emitted' = << Emit("presence_updated",
                                     ToRoomExcept(ioRooms, currentRoom[c], c),
                                     [userId |-> presence.userId, status |-> status]) >>
       ELSE /\ emitted' = <<>>
            /\ UNCHANGED <<userPresence, collaborationRooms>>
    /\ lastEvent' = [type |-> "presence_update", socketId |-> c, arg |-> status]
    /\ UNCHANGED <<currentRoom, connState, ioRooms, member>>
    /\ UNCHANGED <<countVars, clientVars>>

(* socket.on('cursor_update'), socket.ts 121-141 *)
CursorUpdate(c, point) ==
    /\ Receive(c)
    /\ IF HasSession(c)
       THEN LET presence == [userPresence[c] EXCEPT !.cursor = point]
            IN /\ userPresence' = [userPresence EXCEPT ![c] = presence]
               /\ collaborationRooms' =
                     SetUser(collaborationRooms, currentRoom[c], c, presence)
               /\ emitted' = << Emit("cursor_updated",
                                     ToRoomExcept(ioRooms, currentRoom[c], c),
                                     [userId |-> presence.userId, cursor |-> point]) >>
       ELSE /\ emitted' = <<>>
            /\ UNCHANGED <<userPresence, collaborationRooms>>
    /\ lastEvent' = [type |-> "cursor_update", socketId |-> c, arg |-> point]
    /\ UNCHANGED <<currentRoom, connState, ioRooms, member>>
    /\ UNCHANGED <<countVars, clientVars>>

(* socket.on('spark_editing_start'), socket.ts 144-164 *)
SparkEditingStartStep(c, sparkId) ==
    /\ Receive(c)
    /\ IF HasRoom(c)
       THEN LET editingSession == [sparkId |-> sparkId,
                                   userId |-> userPresence[c].userId]
            IN /\ collaborationRooms' =
                     [collaborationRooms EXCEPT ![currentRoom[c]].activeSparks =
                         MapSet(@, SessionKey(sparkId, c), editingSession)]
               /\ emitted' = << Emit("spark_editing_started",
                                     ToRoomExcept(ioRooms, currentRoom[c], c),
                                     editingSession) >>
       ELSE /\ emitted' = <<>>
            /\ UNCHANGED collaborationRooms
    /\ lastEvent' = [type |-> "spark_editing_start", socketId |-> c, arg |-> sparkId]
    /\ UNCHANGED <<currentRoom, userPresence, connState, ioRooms, member>>

SparkEditingStart(c, sparkId) ==
    /\ SparkEditingStartStep(c, sparkId)
    /\ UNCHANGED <<countVars, clientVars>>

\* the if (editingSession) test left out
EditingSessionAssumed(room, sessionKey) == TRUE

\* if (editingSession): is there a claim under the key to end
EditingSessionFound(room, sessionKey) == sessionKey \in DOMAIN room.activeSparks

(* socket.on('spark_editing_end'), socket.ts 167-187 *)
SparkEditingEndStep(c, sparkId) ==
    /\ Receive(c)
    /\ LET sessionKey == SessionKey(sparkId, c)
       IN IF HasRoom(c) /\ EditingSessionFound(collaborationRooms[currentRoom[c]], sessionKey)
          THEN /\ collaborationRooms' =
                     [collaborationRooms EXCEPT ![currentRoom[c]].activeSparks =
                         MapDelete(@, sessionKey)]
               /\ emitted' = << Emit("spark_editing_ended",
                                     ToRoomExcept(ioRooms, currentRoom[c], c),
                                     [sparkId |-> sparkId,
                                      userId |-> userPresence[c].userId]) >>
          ELSE /\ emitted' = <<>>
               /\ UNCHANGED collaborationRooms
    /\ lastEvent' = [type |-> "spark_editing_end", socketId |-> c, arg |-> sparkId]
    /\ UNCHANGED <<currentRoom, userPresence, connState, ioRooms, member>>

SparkEditingEnd(c, sparkId) ==
    /\ SparkEditingEndStep(c, sparkId)
    /\ UNCHANGED <<countVars, clientVars>>

(* socket.on('spark_content_change'), socket.ts 190-208 *)
SparkContentChangeStep(c, sparkId) ==
    /\ Receive(c)
    /\ emitted' = IF currentRoom[c] # NoRoom /\ userPresence[c] # NULL
                  THEN << Emit("spark_content_changed",
                               ToRoomExcept(ioRooms, currentRoom[c], c),
                               [sparkId |-> sparkId,
                                userId |-> userPresence[c].userId]) >>
                  ELSE <<>>
    /\ lastEvent' = [type |-> "spark_content_change", socketId |-> c, arg |-> sparkId]
    /\ UNCHANGED <<collaborationRooms, currentRoom, userPresence, connState,
                   ioRooms, member>>

SparkContentChange(c, sparkId) ==
    /\ SparkContentChangeStep(c, sparkId)
    /\ UNCHANGED <<countVars, clientVars>>

(* socket.on('disconnect'), socket.ts 211-217.  socket.io has taken the   *)
(* socket out of all its rooms before the handler runs.                   *)
DisconnectResult(c) ==
    LET io1 == [ioRooms EXCEPT ![c] = {}]
    IN [io |-> io1,
        hl |-> IF currentRoom[c] # NoRoom
               THEN HandleUserLeave(collaborationRooms, io1, currentRoom[c], c)
               ELSE NoLeave(collaborationRooms)]

DisconnectStep(c) ==
    /\ connState[c] = "open"
    /\ LET r == DisconnectResult(c)
       IN /\ collaborationRooms' = r.hl.rooms
          /\ emitted' = r.hl.out
          /\ ioRooms' = r.io
    /\ member' = [member EXCEPT ![c] = NoRoom]
    /\ connState' = [connState EXCEPT ![c] = "closed"]
    /\ lastEvent' = [type |-> "disconnect", socketId |-> c, arg |-> NULL]
    /\ UNCHANGED <<currentRoom, userPresence, processed>>

Disconnect(c) ==
    /\ DisconnectStep(c)
    /\ UNCHANGED <<countVars, clientVars>>

----------------------------------------------------------------------------
(* SocketClient, socket-client.ts 63-352.                                  *)
(*                                                                         *)
(* A socket of socket.io-client is "opening" (first connection under way), *)
(* "up" (socket.connected), "reopening" (lost; a connection attempt is or  *)
(* can be under way) or "closed" (closed by either end; only an explicit   *)
(* socket.connect() reopens it).  io() is called without reconnection:     *)
(* false, so the library itself keeps trying to reopen a lost socket.      *)
(* Time is counted in units of the idle threshold (5 minutes); the retry   *)
(* delays (1 to 16 seconds) are shorter than one unit.                     *)

maxReconnectAttempts == 5
reconnectDelay == 1000
\* 5 * 60 * 1000 ms, one unit
IdleTicks == 1
\* 10 * 60 * 1000 ms, two units
AwayTicks == 2

\* Bounds
MaxSockets == 3
\* the sockets needed for the attempt counter to reach the cap and a drop
\* to find it there
MaxSocketsAtCap == 6
MaxRetryTimers == 2
MaxQuiet == 3

NoSocket == "null"
TimerNull == [state |-> "null", left |-> 0]
TimerFired == [state |-> "fired", left |-> 0]
Pending(k) == [state |-> "pending", left |-> k]
Due(t) == t.state = "pending" /\ t.left = 0

\* the fields of the SocketClient, with what a step has emitted and surfaced
This ==
    [socket |-> socket, replaced |-> replaced,
     connectionStatus |-> connectionStatus,
     reconnectAttempts |-> reconnectAttempts,
     currentUser |-> currentUser,
     idleTimer |-> idleTimer, awayTimer |-> awayTimer,
     retryTimers |-> retryTimers, lastDelay |-> lastDelay,
     quiet |-> quiet, sent |-> <<>>, surfaced |-> <<>>,
     eventListeners |-> eventListeners, boundKeys |-> boundKeys,
     budgetSpent |-> budgetSpent]

\* this.socket?.connected
SocketConnected(t) == t.socket = "up"

(* updatePresence, 167-172 *)
updatePresence(t, status) ==
    IF ~SocketConnected(t) \/ t.currentUser = NULL THEN t
    ELSE [t EXCEPT !.currentUser.status = status,
                   !.sent = Append(@, [event |-> "presence_update", arg |-> status])]

(* clearPresenceTimers, 331-340 *)
clearPresenceTimers(t) ==
    [t EXCEPT !.idleTimer = TimerNull, !.awayTimer = TimerNull]

(* startPresenceTracking, 342-346 *)
startPresenceTracking(t) ==
    IF t.currentUser # NULL THEN updatePresence(t, "online") ELSE t

(* joinWorkspace, 145-158 *)
joinWorkspace(t, workspaceId) ==
    IF ~SocketConnected(t) THEN t
    ELSE [t EXCEPT !.currentUser = [workspaceId |-> workspaceId, status |-> "online"],
                   !.sent = Append(@, [event |-> "user_join", arg |-> workspaceId]),
                   !.quiet = 0]

(* leaveWorkspace, 160-165 *)
leaveWorkspace(t, workspaceId) ==
    IF ~SocketConnected(t) THEN t
    ELSE [t EXCEPT !.sent = Append(@, [event |-> "user_leave", arg |-> workspaceId]),
                   !.currentUser = NULL]

\* this.reconnectDelay * Math.pow(2, this.reconnectAttempts - 1)
BackoffDelay(attempts) == reconnectDelay * 2 ^ (attempts - 1)

\* attemptReconnect without the test against maxReconnectAttempts
attemptReconnectUncapped(t) ==
    [t EXCEPT !.connectionStatus = "reconnecting",
              !.reconnectAttempts = @ + 1,
              !.lastDelay = BackoffDelay(t.reconnectAttempts + 1),
              !.retryTimers = @ + 1]

(* attemptReconnect, 270-290 *)
attemptReconnect(t) ==
    IF t.reconnectAttempts >= maxReconnectAttempts
    THEN [t EXCEPT !.connectionStatus = "error"]
    ELSE [t EXCEPT !.connectionStatus = "reconnecting",
                   !.reconnectAttempts = @ + 1,
                   !.lastDelay = BackoffDelay(t.reconnectAttempts + 1),
                   !.retryTimers = @ + 1]

(* socket.on('connect'), 96-103 *)
OnConnect(t) ==
    startPresenceTracking([t EXCEPT !.connectionStatus = "connected",
                                    !.reconnectAttempts = 0,
                                    !.quiet = 0])

(* socket.on('connect_error'), 105-111 *)
OnConnectError(t) ==
    [t EXCEPT !.connectionStatus = "error",
              !.surfaced = Append(@, "connect_error")]

(* socket.on('disconnect'), 205-219 *)
OnDisconnect(t, reason) ==
    LET t1 == clearPresenceTimers([t EXCEPT !.connectionStatus = "disconnected"])
        t2 == [t1 EXCEPT !.surfaced = Append(@, "disconnect")]
    IN IF reason = "io server disconnect" THEN t2 ELSE attemptReconnect(t2)

(* socket.on('reconnect'), 221-235 *)
OnReconnect(t) ==
    LET t1 == startPresenceTracking([t EXCEPT !.connectionStatus = "connected",
                                              !.reconnectAttempts = 0])
        t2 == IF t1.currentUser # NULL
              THEN joinWorkspace(t1, t1.currentUser.workspaceId) ELSE t1
    IN [t2 EXCEPT !.surfaced = Append(@, "reconnect")]

Op(name, from) == [name |-> name, from |-> from]

\* the step is taken: every field of `this` takes its new value
Becomes(t, op) ==
    /\ socket' = t.socket
    /\ replaced' = t.replaced
    /\ connectionStatus' = t.connectionStatus
    /\ reconnectAttempts' = t.reconnectAttempts
    /\ currentUser' = t.currentUser
    /\ idleTimer' = t.idleTimer
    /\ awayTimer' = t.awayTimer
    /\ retryTimers' = t.retryTimers
    /\ lastDelay' = t.lastDelay
    /\ quiet' = t.quiet
    /\ sent' = t.sent
    /\ surfaced' = t.surfaced
    /\ clientOp' = op
    /\ eventListeners' = t.eventListeners
    /\ boundKeys' = t.boundKeys
    /\ budgetSpent' = t.budgetSpent
    /\ UNCHANGED <<relayVars, countVars>>

AliveSockets ==
    (IF socket \in {"opening", "up", "reopening"} THEN 1 ELSE 0)
    + replaced.opening + replaced.up + replaced.reopening

(* connect(), 78-113 *)
ConnectWithin(limit) ==
    IF socket = "up"
    THEN Becomes([This EXCEPT !.budgetSpent = FALSE], Op("connect()", "consumer"))
    ELSE /\ AliveSockets < limit
         /\ Becomes([This EXCEPT
                !.connectionStatus = "connecting",
                !.replaced = IF socket \in {"opening", "reopening"}
                             THEN [@ EXCEPT ![socket] = @ + 1] ELSE @,
                !.socket = "opening",
                \* setupSocketEventHandlers, 249-254: Object.keys(this.eventListeners)
                !.boundKeys = eventListeners,
                !.budgetSpent = FALSE], Op("connect()", "consumer"))

ConnectCall == ConnectWithin(MaxSockets)

ConnectCallAtCap == ConnectWithin(MaxSocketsAtCap)

(* disconnect(), 115-124.  socket.disconnect() on a connected socket runs  *)
(* the 'disconnect' handler with reason 'io client disconnect' at once.    *)
DisconnectCall ==
    /\ (socket = "up" /\ reconnectAttempts < maxReconnectAttempts)
          => retryTimers < MaxRetryTimers
    /\ LET t1 == IF socket = "up"
                 THEN OnDisconnect(This, "io client disconnect") ELSE This
           t2 == [t1 EXCEPT !.socket = NoSocket,
                            !.boundKeys = {},
                            !.connectionStatus = "disconnected",
                            !.currentUser = NULL,
                            !.budgetSpent = FALSE]
       IN Becomes(clearPresenceTimers(t2), Op("disconnect()", "consumer"))

JoinWorkspaceCall(workspaceId) ==
    /\ workspaceId \in Workspaces
    /\ Becomes(joinWorkspace(This, workspaceId), Op("joinWorkspace", "consumer"))

LeaveWorkspaceCall(workspaceId) ==
    /\ workspaceId \in Workspaces
    /\ Becomes(leaveWorkspace(This, workspaceId), Op("leaveWorkspace", "consumer"))

\* the relayed events a consumer listens to
RelayedEvents == {"user_joined", "user_left"}

(* on(), 136-138 *)
OnCall(event) ==
    /\ event \in RelayedEvents
    /\ Becomes([This EXCEPT !.eventListeners = @ \cup {event}], Op("on", "consumer"))

(* off(), 140-142 *)
OffCall(event) ==
    /\ event \in RelayedEvents
    /\ Becomes([This EXCEPT !.eventListeners = @ \ {event}], Op("off", "consumer"))

\* the handlers this.socket has for a relayed event, in the order they were
\* bound: the one of the Object.keys loop (249-254), if the event was a key
\* at set-up, then the one of the fixed list (257-266); each calls
\* this.eventListeners[event], if there is one
HandlersFor(t, event) ==
    (IF event \in t.boundKeys THEN <<event>> ELSE <<>>) \o <<event>>

(* a relayed event arrives at this.socket, 249-266 *)
RelayedEventArrives(event) ==
    /\ event \in RelayedEvents
    /\ socket = "up"
    /\ Becomes([This EXCEPT !.surfaced =
                    IF event \in eventListeners THEN HandlersFor(This, event)
                    ELSE <<>>],
               Op("relayed", "current"))

Origins == {"current", "replaced"}
DropReasons == {"io server disconnect", "transport close"}

\* the order in which the library raises 'reconnect' around 'connect' when
\* a lost socket is up again: not at all, before it, or after it
ReconnectModes == {"none", "before", "after"}

\* the socket the event comes from: this.socket or a replaced one
Raise(t, from, state, state2) ==
    IF from = "current"
    THEN [t EXCEPT !.socket = state2]
    ELSE [t EXCEPT !.replaced[state] = @ - 1, !.replaced[state2] = @ + 1]

Has(from, state) ==
    IF from = "current" THEN socket = state ELSE replaced[state] > 0

(* the transport of a socket is up: 'connect' (and 'reconnect') *)
SocketConnects(from, state, mode) ==
    /\ state \in {"opening", "reopening"}
    /\ Has(from, state)
    /\ state = "opening" => mode = "none"
    /\ LET t0 == This
           \* 'reconnect' raised before the socket counts as connected
           t1 == IF mode = "before" THEN OnReconnect(t0) ELSE t0
           t2 == OnConnect(Raise(t1, from, state, "up"))
           t3 == IF mode = "after" THEN OnReconnect(t2) ELSE t2
       IN Becomes(t3, Op("connect", from))

(* a connection attempt of a socket fails: 'connect_error' *)
SocketConnectError(from, state) ==
    /\ state \in {"opening", "reopening"}
    /\ Has(from, state)
    /\ Becomes(OnConnectError(This), Op("connect_error", from))

(* a connected socket is lost or closed by the server: 'disconnect' *)
SocketDisconnects(from, reason) ==
    /\ Has(from, "up")
    /\ (reason # "io server disconnect" /\ reconnectAttempts < maxReconnectAttempts)
          => retryTimers < MaxRetryTimers
    /\ IF reason = "io server disconnect"
       THEN LET t1 == IF from = "current" THEN [This EXCEPT !.socket = "closed"]
                      ELSE [This EXCEPT !.replaced.up = @ - 1]
            IN Becomes(OnDisconnect(t1, reason), Op("server disconnect", from))
       ELSE LET t1 == Raise(This, from, "up", "reopening")
                t2 == [t1 EXCEPT !.budgetSpent =
                          @ \/ reconnectAttempts >= maxReconnectAttempts]
            IN Becomes(OnDisconnect(t2, reason), Op("disconnect", from))

(* the setTimeout callback of attemptReconnect, 285-289 *)
RetryTimerFires ==
    /\ retryTimers > 0
    /\ LET t1 == [This EXCEPT !.retryTimers = @ - 1]
       IN Becomes(IF t1.socket = "closed"
                  THEN [t1 EXCEPT !.socket = "reopening"] ELSE t1,
                  Op("retryTimer", "timer"))

(* resetTimers, 295-315: a tracked input event *)
InputEvent ==
    /\ clientOp.from \in {"consumer", "browser", "timer"} \cup Origins
    /\ LET t1 == clearPresenceTimers(This)
           t2 == IF t1.currentUser = NULL \/ t1.currentUser.status # "online"
                 THEN updatePresence(t1, "online") ELSE t1
       IN Becomes([t2 EXCEPT !.idleTimer = Pending(IdleTicks), !.quiet = 0],
                  Op("input", "browser"))

(* the idle timeout callback, 303-314 *)
IdleTimerFires ==
    /\ Due(idleTimer)
    /\ LET t1 == IF currentUser # NULL /\ currentUser.status = "online"
                 THEN updatePresence(This, "idle") ELSE This
       IN Becomes([t1 EXCEPT !.idleTimer = TimerFired,
                             !.awayTimer = Pending(AwayTicks)],
                  Op("idleTimer", "timer"))

(* the away timeout callback, 309-313 *)
AwayTimerFires ==
    /\ Due(awayTimer)
    /\ LET t1 == IF currentUser # NULL /\ currentUser.status = "idle"
                 THEN updatePresence(This, "away") ELSE This
       IN Becomes([t1 EXCEPT !.awayTimer = TimerFired], Op("awayTimer", "timer"))

CountDown(t) == IF t.state = "pending" THEN Pending(t.left - 1) ELSE t

(* one unit of time passes; every timer that is due has fired *)
Tick ==
    /\ quiet < MaxQuiet
    /\ retryTimers = 0
    /\ ~Due(idleTimer) /\ ~Due(awayTimer)
    /\ Becomes([This EXCEPT !.idleTimer = CountDown(@),
                            !.awayTimer = CountDown(@),
                            !.quiet = @ + 1], Op("tick", "timer"))


NextClient ==
    \/ ConnectCall
    \/ DisconnectCall
    \/ \E w \in Workspaces : JoinWorkspaceCall(w)
    \/ \E w \in Workspaces : LeaveWorkspaceCall(w)
    \/ \E from \in Origins, state \in {"opening", "reopening"}, mode \in ReconnectModes :
          SocketConnects(from, state, mode)
    \/ \E from \in Origins, state \in {"opening", "reopening"} :
          SocketConnectError(from, state)
    \/ \E from \in Origins, reason \in DropReasons : SocketDisconnects(from, reason)
    \/ RetryTimerFires
    \/ InputEvent
    \/ IdleTimerFires
    \/ AwayTimerFires
    \/ Tick

----------------------------------------------------------------------------
(* The relay: const collaborationRooms = new Map(), socket.ts 30 *)

Init ==
    /\ collaborationRooms = [r \in {} |-> NULL]
    /\ currentRoom = [c \in SocketIds |-> NoRoom]
    /\ userPresence = [c \in SocketIds |-> NULL]
    /\ connState = [c \in SocketIds |-> "new"]
    /\ ioRooms = [c \in SocketIds |-> {}]
    /\ emitted = <<>>
    /\ lastEvent = [type |-> "none", socketId |-> <<>>, arg |-> NULL]
    /\ member = [c \in SocketIds |-> NoRoom]
    /\ processed = 0
    /\ joinsProcessed = [r \in RoomKeys |-> 0]
    /\ leavesProcessed = [r \in RoomKeys |-> 0]
    /\ sessionsAdded = [r \in RoomKeys |-> 0]
    /\ sessionsRemoved = [r \in RoomKeys |-> 0]
    /\ delivered = [c \in SocketIds |-> <<>>]
    \* new SocketClient(), socket-client.ts 63-76
    /\ socket = NoSocket
    /\ replaced = [opening |-> 0, up |-> 0, reopening |-> 0]
    /\ connectionStatus = "disconnected"
    /\ reconnectAttempts = 0
    /\ currentUser = NULL
    /\ idleTimer = TimerNull
    /\ awayTimer = TimerNull
    /\ retryTimers = 0
    /\ lastDelay = 0
    /\ quiet = 0
    /\ sent = <<>>
    /\ surfaced = <<>>
    /\ clientOp = Op("new", "consumer")
    /\ eventListeners = {}
    /\ boundKeys = {}
    /\ budgetSpent = FALSE

Next ==
    \/ \E c \in SocketIds : Connection(c)
    \/ \E c \in SocketIds, w \in Workspaces : UserJoin(c, UserOf(c), w)
    \/ \E c \in SocketIds, w \in Workspaces : UserLeave(c, w)
    \/ \E c \in SocketIds, st \in Statuses : PresenceUpdate(c, st)
    \/ \E c \in SocketIds, p \in CursorPoints : CursorUpdate(c, p)
    \/ \E c \in SocketIds, s \in SparkIds : SparkEditingStart(c, s)
    \/ \E c \in SocketIds, s \in SparkIds : SparkEditingEnd(c, s)
    \/ \E c \in SocketIds, s \in SparkIds : SparkContentChange(c, s)
    \/ \E c \in SocketIds : Disconnect(c)

Spec == Init /\ [][Next]_vars

SpecClient == Init /\ [][NextClient]_vars

\* the connection life cycle alone, with room for as many live sockets as
\* the attempt counter needs to reach the cap
NextReconnect ==
    \/ ConnectCallAtCap
    \/ DisconnectCall
    \/ \E from \in Origins, state \in {"opening", "reopening"}, mode \in ReconnectModes :
          SocketConnects(from, state, mode)
    \/ \E from \in Origins, state \in {"opening", "reopening"} :
          SocketConnectError(from, state)
    \/ \E from \in Origins, reason \in DropReasons : SocketDisconnects(from, reason)
    \/ RetryTimerFires

SpecReconnect == Init /\ [][NextReconnect]_vars

\* the consumer's listeners and the delivery of relayed events
NextListeners ==
    \/ ConnectCall
    \/ DisconnectCall
    \/ \E event \in RelayedEvents : OnCall(event)
    \/ \E event \in RelayedEvents : OffCall(event)
    \/ \E event \in RelayedEvents : RelayedEventArrives(event)
    \/ \E from \in Origins, state \in {"opening", "reopening"}, mode \in ReconnectModes :
          SocketConnects(from, state, mode)
    \/ \E from \in Origins, reason \in DropReasons : SocketDisconnects(from, reason)
    \/ RetryTimerFires

SpecListeners == Init /\ [][NextListeners]_vars

----------------------------------------------------------------------------
(* The handlers that write room.users, with the per-room event counters *)
(* kept                                                               *)

UserJoinCounted(c, userId, workspaceId) ==
    /\ JoinStep(c, userId, workspaceId)
    /\ LET r == JoinResult(c, userId, workspaceId)
       IN /\ joinsProcessed' = Bump(joinsProcessed, r.roomKey)
          /\ sessionsAdded' = IF r.fresh THEN Bump(sessionsAdded, r.roomKey)
                              ELSE sessionsAdded
          /\ sessionsRemoved' = IF r.prevRemoved
                                THEN Bump(sessionsRemoved, currentRoom[c])
                                ELSE sessionsRemoved
    /\ UNCHANGED <<leavesProcessed, delivered, clientVars>>

UserLeaveCounted(c, workspaceId) ==
    /\ LeaveStep(c, workspaceId)
    /\ LET roomKey == RoomKey(workspaceId)
           hl == HandleUserLeave(collaborationRooms, ioRooms, roomKey, c)
       IN /\ leavesProcessed' = Bump(leavesProcessed, roomKey)
          /\ sessionsRemoved' = IF hl.removed THEN Bump(sessionsRemoved, roomKey)
                                ELSE sessionsRemoved
    /\ UNCHANGED <<joinsProcessed, sessionsAdded, delivered, clientVars>>

\* a disconnect is counted for the room the connection announced itself to
DisconnectCounted(c) ==
    /\ DisconnectStep(c)
    /\ leavesProcessed' = IF member[c] # NoRoom
                          THEN Bump(leavesProcessed, member[c])
                          ELSE leavesProcessed
    /\ sessionsRemoved' = IF DisconnectResult(c).hl.removed
                          THEN Bump(sessionsRemoved, currentRoom[c])
                          ELSE sessionsRemoved
    /\ UNCHANGED <<joinsProcessed, sessionsAdded, delivered, clientVars>>

NextCounted ==
    \/ \E c \in SocketIds : Connection(c)
    \/ \E c \in SocketIds, w \in Workspaces : UserJoinCounted(c, UserOf(c), w)
    \/ \E c \in SocketIds, w \in Workspaces : UserLeaveCounted(c, w)
    \/ \E c \in SocketIds, st \in Statuses : PresenceUpdate(c, st)
    \/ \E c \in SocketIds, p \in CursorPoints : CursorUpdate(c, p)
    \/ \E c \in SocketIds : DisconnectCounted(c)

SpecCounted == Init /\ [][NextCounted]_vars

----------------------------------------------------------------------------
(* The handlers with what each connection is sent kept in order.  A        *)
(* handler emits while it runs, and socket.io hands what is emitted to one *)
(* connection to that connection in the order emitted.                     *)

\* what the step emitted is put in front of what was sent before
DeliverOvertaking(log, out, c, seq) ==
    [d \in SocketIds |->
        LET ForD(e) == d \in e.to
            mine == SelectSeq(out, ForD)
        IN [i \in 1..Len(mine) |->
               [from |-> c, seq |-> seq, event |-> mine[i].event]] \o log[d]]

\* what the handler of client event number seq, from connection c, emitted
\* is added to what each recipient has been sent
Deliver(log, out, c, seq) ==
    [d \in SocketIds |->
        LET ForD(e) == d \in e.to
            mine == SelectSeq(out, ForD)
        IN log[d] \o [i \in 1..Len(mine) |->
                        [from |-> c, seq |-> seq, event |-> mine[i].event]]]

Ordered(c) ==
    /\ delivered' = Deliver(delivered, emitted', c, processed')
    /\ UNCHANGED <<joinsProcessed, leavesProcessed, sessionsAdded,
                   sessionsRemoved, clientVars>>

UserJoinOrdered(c, userId, workspaceId) ==
    JoinStep(c, userId, workspaceId) /\ Ordered(c)

SparkEditingStartOrdered(c, sparkId) ==
    SparkEditingStartStep(c, sparkId) /\ Ordered(c)

SparkEditingEndOrdered(c, sparkId) ==
    SparkEditingEndStep(c, sparkId) /\ Ordered(c)

SparkContentChangeOrdered(c, sparkId) ==
    SparkContentChangeStep(c, sparkId) /\ Ordered(c)

NextOrdered ==
    \/ \E c \in SocketIds : Connection(c)
    \/ \E c \in SocketIds, w \in Workspaces : UserJoinOrdered(c, UserOf(c), w)
    \/ \E c \in SocketIds, s \in SparkIds : SparkEditingStartOrdered(c, s)
    \/ \E c \in SocketIds, s \in SparkIds : SparkEditingEndOrdered(c, s)
    \/ \E c \in SocketIds, s \in SparkIds : SparkContentChangeOrdered(c, s)

SpecOrdered == Init /\ [][NextOrdered]_vars

----------------------------------------------------------------------------
(* Observations of the registry *)

\* the keys under which a connection's editing claims are stored
ClaimKeysOf(c) == { SessionKey(sparkId, c) : sparkId \in SparkIds }

\* the Presence Session of connection c in room r of a registry, NULL if
\* there is none
SessionIn(rooms, r, c) ==
    IF r \in DOMAIN rooms /\ c \in DOMAIN rooms[r].users
    THEN rooms[r].users[c]
    ELSE NULL

SessionOf(r, c) == SessionIn(collaborationRooms, r, c)

\* the Editing Claims of connection c in room r
ClaimsOf(r, c) ==
    IF r \in DOMAIN collaborationRooms
    THEN [k \in (DOMAIN collaborationRooms[r].activeSparks) \cap ClaimKeysOf(c) |->
             collaborationRooms[r].activeSparks[k]]
    ELSE EmptyMap

SessionCount(r) ==
    IF r \in DOMAIN collaborationRooms
    THEN Cardinality(DOMAIN collaborationRooms[r].users)
    ELSE 0

HoldsClaim(c, sparkId) ==
    \E r \in DOMAIN collaborationRooms :
        SessionKey(sparkId, c) \in DOMAIN collaborationRooms[r].activeSparks

EmittedEvents == { emitted[i].event : i \in 1..Len(emitted) }

----------------------------------------------------------------------------
(* C1.  Once the relay has processed a connection's disconnect, no room    *)
(* holds a Presence Session or an Editing Claim keyed by that connection,  *)
(* whatever it sent before.                                                *)
C1_DisconnectedHoldsNothing ==
    \A c \in SocketIds :
        connState[c] = "closed" =>
            \A r \in RoomKeys :
                /\ SessionOf(r, c) = NULL
                /\ DOMAIN ClaimsOf(r, c) = {}

C3_SnapshotIsCurrentMembers ==
    lastEvent.type = "user_join" =>
        LET snapshot == emitted[Len(emitted)].data
            members == { d \in SocketIds : member[d] = RoomKey(lastEvent.arg) }
        IN /\ DOMAIN snapshot.users = members
           /\ \A k \in DOMAIN snapshot.activeSparks :
                 \E d \in members : k \in ClaimKeysOf(d)

(* C4.  Processing a leave, disconnect, statusUpdate, cursorUpdate,        *)
(* beginEdit or endEdit from connection c leaves every other connection's  *)
(* Presence Session and Editing Claims, in every room, as they were.       *)
OwnEffectTypes == {"user_leave", "disconnect", "presence_update",
                   "cursor_update", "spark_editing_start", "spark_editing_end"}

C4_OthersUnchanged ==
    [][ (lastEvent'.type \in OwnEffectTypes /\ vars' # vars) =>
            \A d \in SocketIds \ {lastEvent'.socketId}, r \in RoomKeys :
                /\ SessionOf(r, d)' = SessionOf(r, d)
                /\ ClaimsOf(r, d)' = ClaimsOf(r, d) ]_vars

\* a connection has just left or disconnected from a room in which a peer
\* holds a session and a claim
C4_Witness ==
    /\ lastEvent.type \in {"user_leave", "disconnect"}
    /\ "user_left" \in EmittedEvents
    /\ \E r \in RoomKeys, d \in SocketIds \ {lastEvent.socketId} :
          /\ SessionOf(r, d) # NULL
          /\ DOMAIN ClaimsOf(r, d) # {}
          /\ \E i \in 1..Len(emitted) :
                emitted[i].event = "user_left" /\ d \in emitted[i].to

(* C5.  An endEdit for an (item, connection) pair that holds no claim      *)
(* leaves the registry as it was and emits no editEnded event; the number  *)
(* of claims does not drop.                                                *)
C5_EndWithoutClaimIsNoOp ==
    [][ \A c \in SocketIds, sparkId \in SparkIds :
          ( /\ lastEvent' = [type |-> "spark_editing_end", socketId |-> c,
                             arg |-> sparkId]
            /\ processed' = processed + 1
            /\ ~HoldsClaim(c, sparkId) )
          => /\ collaborationRooms' = collaborationRooms
             /\ "spark_editing_ended" \notin EmittedEvents' ]_vars

\* an endEdit without a claim, sent from inside a room that has a peer
C5_Witness ==
    /\ lastEvent.type = "spark_editing_end"
    /\ emitted = <<>>
    /\ HasRoom(lastEvent.socketId)
    /\ ~HoldsClaim(lastEvent.socketId, lastEvent.arg)
    /\ ToRoomExcept(ioRooms, currentRoom[lastEvent.socketId],
                    lastEvent.socketId) # {}

----------------------------------------------------------------------------
(* C6.  When a reconnect attempt fails (the retry timer has fired and the  *)
(* socket reports a connection error), the client schedules a further      *)
(* attempt whose backoff delay is strictly greater than that of the        *)
(* previous attempt, as long as the attempt counter is below the cap.      *)
C6_FailedAttemptSchedulesLongerRetry ==
    [][ ( /\ clientOp' = Op("connect_error", "current")
          /\ connectionStatus = "reconnecting"
          /\ retryTimers = 0
          /\ reconnectAttempts < maxReconnectAttempts )
        => /\ retryTimers' = retryTimers + 1
           /\ lastDelay' > lastDelay ]_vars

(* C7.  Once an unexpected drop has found the attempt counter at the cap,  *)
(* the status is error and stays error, with no automatic reconnection,    *)
(* until the consumer calls connect() again.                               *)
C7_ErrorIsTerminal ==
    budgetSpent => /\ connectionStatus = "error"
                   /\ socket # "up"

(* C8.  During automatic recovery from an unexpected drop the status       *)
(* becomes error, and the consumer's error listener is called, only when   *)
(* the attempt counter has reached the maximum attempt count.              *)
C8_ErrorOnlyWhenBudgetSpent ==
    [][ ( /\ connectionStatus = "reconnecting"
          /\ \/ connectionStatus' = "error"
             \/ \E i \in 1..Len(surfaced') : surfaced'[i] = "connect_error" )
        => reconnectAttempts' >= maxReconnectAttempts ]_vars

(* C9.  Whenever the transport of the client's socket connects while a     *)
(* workspace membership is recorded locally, the client emits user_join    *)
(* for that workspace.                                                     *)
C9_ConnectReannouncesJoin ==
    [][ ( /\ clientOp' = Op("connect", "current")
          /\ currentUser # NULL )
        => \E i \in 1..Len(sent') :
              sent'[i] = [event |-> "user_join", arg |-> currentUser.workspaceId] ]_vars

(* C10.  A connected, joined client whose status is online does not stay   *)
(* online for longer than the idle threshold without a tracked input       *)
(* event, also when no input event has occurred since it joined or since   *)
(* it last reconnected.                                                    *)
C10_QuietClientGoesIdle ==
    ( /\ socket = "up"
      /\ currentUser # NULL
      /\ currentUser.status = "online" )
    => quiet <= IdleTicks

(* C11.  A tracked input event of a client that has a recorded session     *)
(* leaves its status online, whatever the status was (idle or away), with  *)
(* both inactivity timers cancelled and the idle timer started again.      *)
C11_InputSetsOnline ==
    [][ ( /\ clientOp' = Op("input", "browser")
          /\ currentUser # NULL )
        => /\ currentUser' # NULL
           /\ currentUser'.status = "online"
           /\ idleTimer' = Pending(IdleTicks)
           /\ awayTimer' = TimerNull ]_vars

----------------------------------------------------------------------------
\* the positions in what the handler emitted that carry the given event
EmittedAt(out, event) == { i \in 1..Len(out) : out[i].event = event }

\* the step is the relay processing a client event of the given type
Processes(type) ==
    /\ lastEvent'.type = type
    /\ processed' = processed + 1

(* C12.  When the relay processes a join of connection c for a room, it    *)
(* emits exactly one user_joined event, carrying c's new session, to every *)
(* other open connection that has a session in the room, and a room_state  *)
(* snapshot to c that contains the session of every connection that was in *)
(* the room before.                                                        *)
C12_JoinNotifiesPeersAndSnapshots ==
    [][ Processes("user_join") =>
        LET c == lastEvent'.socketId
            r == RoomKey(lastEvent'.arg)
            joined == EmittedAt(emitted', "user_joined")
            states == EmittedAt(emitted', "room_state")
        IN /\ Cardinality(joined) = 1
           /\ \A i \in joined :
                 /\ emitted'[i].data.user = SessionIn(collaborationRooms', r, c)
                 /\ c \notin emitted'[i].to
                 /\ \A d \in SocketIds \ {c} :
                       ( /\ connState[d] = "open"
                         /\ SessionIn(collaborationRooms', r, d) # NULL )
                          => d \in emitted'[i].to
           /\ Cardinality(states) = 1
           /\ \A i \in states :
                 /\ emitted'[i].to = {c}
                 /\ \A d \in SocketIds \ {c} :
                       SessionOf(r, d) # NULL =>
                          /\ d \in DOMAIN emitted'[i].data.users
                          /\ emitted'[i].data.users[d] = SessionOf(r, d) ]_vars

\* a join into a room in which two other open connections have sessions,
\* both of which are sent the user_joined event and are in the snapshot
C12_Witness ==
    /\ lastEvent.type = "user_join"
    /\ LET c == lastEvent.socketId
           r == RoomKey(lastEvent.arg)
       IN /\ \A d \in SocketIds \ {c} :
                /\ connState[d] = "open"
                /\ SessionOf(r, d) # NULL
                /\ \E i \in EmittedAt(emitted, "user_joined") : d \in emitted[i].to
                /\ \E i \in EmittedAt(emitted, "room_state") :
                      d \in DOMAIN emitted[i].data.users

\* the other open connections that have a session in room r
PeersIn(r, c) ==
    { d \in SocketIds \ {c} : connState[d] = "open" /\ SessionOf(r, d) # NULL }

\* the handler emitted the event, with the data, to every connection of the set
Reaches(out, event, data, peers) ==
    \A d \in peers :
        \E i \in EmittedAt(out, event) :
            /\ out[i].data = data
            /\ d \in out[i].to

(* C13.  When a connection that has joined a room and has neither left it  *)
(* nor disconnected sends beginEdit for an item, every other session of    *)
(* the room is sent spark_editing_started naming the user and the item;    *)
(* when it sends endEdit for an item it holds a claim on, every other      *)
(* session is sent spark_editing_ended for the same user and item.         *)
C13_EditEventsReachPeers ==
    [][ \A c \in SocketIds, sparkId \in SparkIds :
          LET pair == [sparkId |-> sparkId, userId |-> UserOf(c)]
          IN /\ ( /\ Processes("spark_editing_start")
                  /\ lastEvent'.socketId = c /\ lastEvent'.arg = sparkId
                  /\ member[c] # NoRoom )
                => Reaches(emitted', "spark_editing_started", pair,
                           PeersIn(member[c], c))
             /\ ( /\ Processes("spark_editing_end")
                  /\ lastEvent'.socketId = c /\ lastEvent'.arg = sparkId
                  /\ member[c] # NoRoom
                  /\ SessionKey(sparkId, c) \in DOMAIN ClaimsOf(member[c], c) )
                => Reaches(emitted', "spark_editing_ended", pair,
                           PeersIn(member[c], c)) ]_vars

\* the step is the relay processing the disconnect of connection c
Disconnects(c) ==
    /\ connState[c] = "open"
    /\ connState'[c] = "closed"

\* connection c departs from room r in this step: it disconnects while in
\* r, or it sends a leave naming r
Departs(c, r) ==
    \/ Disconnects(c) /\ member[c] = r
    \/ /\ Processes("user_leave")
       /\ lastEvent'.socketId = c
       /\ RoomKey(lastEvent'.arg) = r

(* C14.  When a connection that holds Editing Claims in a room disconnects *)
(* or leaves the room, the relay emits one spark_editing_ended event per   *)
(* claim it held, and each reaches every remaining session of the room.    *)
C14_DepartureEndsClaims ==
    [][ \A c \in SocketIds, r \in RoomKeys :
          ( /\ Departs(c, r)
            /\ SessionOf(r, c) # NULL
            /\ DOMAIN ClaimsOf(r, c) # {} )
          => /\ Cardinality(EmittedAt(emitted', "spark_editing_ended"))
                   = Cardinality(DOMAIN ClaimsOf(r, c))
             /\ \A k \in DOMAIN ClaimsOf(r, c) :
                   Reaches(emitted', "spark_editing_ended", ClaimsOf(r, c)[k],
                           PeersIn(r, c)) ]_vars

\* the client events the relay re-emits as derived events
ClientEventTypes == {"user_join", "user_leave", "presence_update",
                     "cursor_update", "spark_editing_start",
                     "spark_editing_end", "spark_content_change"}

(* C15.  Whatever client event the relay has processed, none of the events *)
(* derived from it (every event but the room_state reply to a joiner) was  *)
(* emitted to the connection the client event came from; in particular a   *)
(* connection is not sent user_left or spark_editing_ended for its own     *)
(* leave.                                                                  *)
C15_OriginatorNotNotified ==
    lastEvent.type \in ClientEventTypes =>
        \A i \in 1..Len(emitted) :
            emitted[i].event # "room_state" =>
                lastEvent.socketId \notin emitted[i].to

(* C16.  Every room in the registry has at least one session: a room is   *)
(* created by the join that puts the first session into it and is deleted  *)
(* by the leave or disconnect that removes its last one.                   *)
C16_NoEmptyRoom ==
    \A r \in DOMAIN collaborationRooms :
        DOMAIN collaborationRooms[r].users # {}

\* the last session of a room has just left or disconnected and the room is
\* gone, while another room lives on
C16_Witness ==
    /\ lastEvent.type \in {"user_leave", "disconnect"}
    /\ \E i \in EmittedAt(emitted, "user_left") :
          \E r \in RoomKeys :
             /\ emitted[i].to \subseteq {lastEvent.socketId}
             /\ r \notin DOMAIN collaborationRooms
             /\ member[lastEvent.socketId] = NoRoom
             /\ DOMAIN collaborationRooms = RoomKeys \ {r}

(* C17.  A beginEdit on an item by connection c leaves every claim of       *)
(* every other connection as it was, claims on the same item included, and *)
(* c's own claim is stored in c's room whether or not another connection   *)
(* holds a claim on the item: two connections can hold claims on the same  *)
(* item in the same room at the same time.                                 *)
C17_BeginEditKeepsOthersClaims ==
    [][ \A c \in SocketIds, sparkId \in SparkIds :
          ( /\ Processes("spark_editing_start")
            /\ lastEvent'.socketId = c
            /\ lastEvent'.arg = sparkId )
          => /\ \A d \in SocketIds \ {c}, r \in RoomKeys :
                   ClaimsOf(r, d)' = ClaimsOf(r, d)
             /\ HasRoom(c) =>
                   SessionKey(sparkId, c) \in DOMAIN ClaimsOf(currentRoom[c], c)' ]_vars

\* a beginEdit on an item another connection of the room holds a claim on:
\* both claims are in the room's claim list
C17_Witness ==
    /\ lastEvent.type = "spark_editing_start"
    /\ \E d \in SocketIds \ {lastEvent.socketId}, r \in DOMAIN collaborationRooms :
          /\ SessionKey(lastEvent.arg, d) \in DOMAIN collaborationRooms[r].activeSparks
          /\ SessionKey(lastEvent.arg, lastEvent.socketId)
                \in DOMAIN collaborationRooms[r].activeSparks
          /\ Cardinality(DOMAIN collaborationRooms[r].activeSparks) = 2

\* the client events that act on the sender's session
SessionEventTypes == {"presence_update", "cursor_update", "spark_editing_start",
                      "spark_editing_end", "spark_content_change"}

NoSessionAnywhere(c) == \A r \in RoomKeys : SessionOf(r, c) = NULL

(* C18.  A statusUpdate, cursorUpdate, beginEdit, endEdit or contentChange *)
(* from a connection that has no session in any room, because it never     *)
(* joined or because it has left, changes nothing in the registry and      *)
(* emits no event.                                                         *)
C18_NoSessionIsNoOp ==
    [][ \A c \in SocketIds :
          ( /\ \E type \in SessionEventTypes : Processes(type)
            /\ lastEvent'.socketId = c
            /\ NoSessionAnywhere(c) )
          => /\ collaborationRooms' = collaborationRooms
             /\ emitted' = <<>> ]_vars

\* such an event from a connection that has left a room in which a peer
\* still has a session
C18_Witness ==
    /\ lastEvent.type \in SessionEventTypes
    /\ LET c == lastEvent.socketId
       IN /\ NoSessionAnywhere(c)
          /\ userPresence[c] # NULL
          /\ emitted = <<>>
          /\ PeersIn(RoomKey(userPresence[c].workspaceId), c) # {}

(* C19.  A leave naming a workspace in whose room the connection has no    *)
(* session changes neither the registry nor the room the relay records for *)
(* the connection, and emits nothing.                                      *)
C19_ForeignLeaveIsNoOp ==
    [][ \A c \in SocketIds :
          ( /\ Processes("user_leave")
            /\ lastEvent'.socketId = c
            /\ SessionIn(collaborationRooms, RoomKey(lastEvent'.arg), c) = NULL )
          => /\ collaborationRooms' = collaborationRooms
             /\ currentRoom'[c] = currentRoom[c]
             /\ emitted' = <<>> ]_vars

----------------------------------------------------------------------------
(* C20.  When the server closes the client's socket (reason 'io server     *)
(* disconnect') the status becomes disconnected, the attempt counter is    *)
(* not incremented and no retry timer is scheduled; and as long as the     *)
(* consumer makes no call the status stays disconnected and the socket     *)
(* stays closed.                                                           *)
C20_ServerCloseStaysDisconnected ==
    [][ /\ clientOp' = Op("server disconnect", "current")
           => /\ connectionStatus' = "disconnected"
              /\ reconnectAttempts' = reconnectAttempts
              /\ retryTimers' = retryTimers
        /\ ( /\ socket = "closed"
             /\ connectionStatus = "disconnected"
             /\ clientOp'.from # "consumer" )
           => /\ connectionStatus' = "disconnected"
              /\ socket' = "closed"
              /\ reconnectAttempts' = reconnectAttempts
              /\ retryTimers' <= retryTimers ]_vars

----------------------------------------------------------------------------
\* the step is the relay processing a leave or the disconnect of connection c
LeavesOrDisconnects(c) ==
    \/ Disconnects(c)
    \/ Processes("user_leave") /\ lastEvent'.socketId = c

(* C21.  Sessions are kept per connection: when connection c joins a room  *)
(* in which another connection d has a session with the same user id, c    *)
(* gets a session of its own and d's stays as it was; and when c leaves or *)
(* disconnects, d's session and claims stay as they were.                  *)
C21_SessionsPerConnection ==
    [][ \A c \in SocketIds, d \in SocketIds, r \in RoomKeys :
          ( /\ c # d
            /\ SessionOf(r, d) # NULL
            /\ SessionOf(r, d).userId = UserOf(c) )
          => /\ ( /\ Processes("user_join")
                  /\ lastEvent'.socketId = c
                  /\ RoomKey(lastEvent'.arg) = r )
                => /\ SessionOf(r, c)' # NULL
                   /\ SessionOf(r, d)' = SessionOf(r, d)
                   /\ ClaimsOf(r, d)' = ClaimsOf(r, d)
             /\ LeavesOrDisconnects(c)
                => /\ SessionOf(r, d)' = SessionOf(r, d)
                   /\ ClaimsOf(r, d)' = ClaimsOf(r, d) ]_vars

\* a connection has left or disconnected from a room in which another
\* connection of the same user keeps its session and a claim
C21_Witness ==
    /\ lastEvent.type \in {"user_leave", "disconnect"}
    /\ \E r \in RoomKeys, d \in SocketIds \ {lastEvent.socketId} :
          /\ SessionOf(r, lastEvent.socketId) = NULL
          /\ SessionOf(r, d) # NULL
          /\ SessionOf(r, d).userId = UserOf(lastEvent.socketId)
          /\ DOMAIN ClaimsOf(r, d) # {}
          /\ \E i \in EmittedAt(emitted, "user_left") :
                /\ d \in emitted[i].to
                /\ emitted[i].data.userId = SessionOf(r, d).userId

----------------------------------------------------------------------------
(* C22.  A relayed event that arrives at the client calls the consumer's   *)
(* listener for it at most once, whether the listener was registered       *)
(* before or after connect().                                              *)
C22_ListenerCalledAtMostOnce ==
    clientOp = Op("relayed", "current") =>
        \A event \in RelayedEvents :
            Cardinality({ i \in 1..Len(surfaced) : surfaced[i] = event }) <= 1

----------------------------------------------------------------------------
----------------------------------------------------------------------------
\* the rooms in which connection c has a Presence Session
RoomsOf(c) == { r \in RoomKeys : SessionOf(r, c) # NULL }

(* C24.  A connection has a Presence Session in at most one room of the    *)
(* registry, whatever join and leave events it has sent.                   *)
C24_AtMostOneRoom ==
    \A c \in SocketIds : Cardinality(RoomsOf(c)) <= 1

(* C25.  Every Editing Claim stored in a room is keyed by a connection     *)
(* that has a Presence Session in that room.                               *)
C25_ClaimOwnerHasSession ==
    \A r \in DOMAIN collaborationRooms :
        \A k \in DOMAIN collaborationRooms[r].activeSparks :
            \E c \in DOMAIN collaborationRooms[r].users : k \in ClaimKeysOf(c)

\* a connection holding a claim has just left or disconnected, its claim is
\* gone, and the room lives on with the claim of a peer
C25_Witness ==
    /\ lastEvent.type \in {"user_leave", "disconnect"}
    /\ EmittedAt(emitted, "spark_editing_ended") # {}
    /\ \E r \in DOMAIN collaborationRooms :
          /\ SessionOf(r, lastEvent.socketId) = NULL
          /\ DOMAIN ClaimsOf(r, lastEvent.socketId) = {}
          /\ DOMAIN collaborationRooms[r].activeSparks # {}
          /\ \E i \in EmittedAt(emitted, "user_left") :
                emitted[i].to \cap DOMAIN collaborationRooms[r].users # {}

(* C26.  When a leave or a disconnect removes a connection's session from  *)
(* a room, the relay emits user_left for it after every                    *)
(* spark_editing_ended event, and there is one of those, before user_left, *)
(* for each claim the connection held in the room.                         *)
C26_EditEndedBeforeUserLeft ==
    [][ \A c \in SocketIds, r \in RoomKeys :
          ( /\ LeavesOrDisconnects(c)
            /\ SessionOf(r, c) # NULL
            /\ SessionOf(r, c)' = NULL )
          => \E i \in EmittedAt(emitted', "user_left") :
                /\ \A j \in EmittedAt(emitted', "spark_editing_ended") : j < i
                /\ \A k \in DOMAIN ClaimsOf(r, c) :
                      \E j \in EmittedAt(emitted', "spark_editing_ended") :
                         /\ j < i
                         /\ emitted'[j].data = ClaimsOf(r, c)[k] ]_vars

\* a connection holding a claim has left or disconnected and a peer was
\* sent spark_editing_ended and then user_left
C26_Witness ==
    /\ lastEvent.type \in {"user_leave", "disconnect"}
    /\ \E d \in SocketIds \ {lastEvent.socketId} :
          \E j \in EmittedAt(emitted, "spark_editing_ended"),
             i \in EmittedAt(emitted, "user_left") :
                /\ j < i
                /\ d \in emitted[j].to
                /\ d \in emitted[i].to

----------------------------------------------------------------------------
(* C27.  When leaveWorkspace() returns the client has no recorded          *)
(* workspace membership, whatever the state of the connection was when it  *)
(* was called.                                                             *)
C27_LeaveClearsMembership ==
    [][ clientOp' = Op("leaveWorkspace", "consumer") => currentUser' = NULL ]_vars

(* C28.  From the return of disconnect() until connect() is called, that   *)
(* is as long as the client names no socket, the status is disconnected    *)
(* and no membership is recorded, whatever timers fire meanwhile.          *)
C28_DisconnectIsFinal ==
    socket = NoSocket => /\ connectionStatus = "disconnected"
                         /\ currentUser = NULL

(* C29.  At most one socket is alive with handlers that set the client's   *)
(* connection status: connect() during an attempt in progress creates no   *)
(* second one.                                                             *)
C29_OneSocketDrivesStatus ==
    AliveSockets <= 1

(* C30.  The attempt counter is between 0 and maxReconnectAttempts, it is  *)
(* 0 after every successful connection, and the backoff delay scheduled    *)
(* last is at most 1000 * 2^4 ms.                                          *)
C30_AttemptsWithinCap ==
    /\ reconnectAttempts \in 0..maxReconnectAttempts
    /\ clientOp.name = "connect" => reconnectAttempts = 0
    /\ lastDelay <= reconnectDelay * 2 ^ (maxReconnectAttempts - 1)

\* a drop has found the counter at the cap, after the longest delay was
\* scheduled, and has left it there
C30_Witness ==
    /\ reconnectAttempts = maxReconnectAttempts
    /\ lastDelay = reconnectDelay * 2 ^ (maxReconnectAttempts - 1)
    /\ clientOp.name = "disconnect"
    /\ budgetSpent
    /\ connectionStatus = "error"

====
